---- MODULE Spec2Model ----
(***************************************************************************)
(* Login, access-token issuance, lookup and revocation of the ruma         *)
(* homeserver: src/api/r0/login.rs, src/models/access_token.rs and the     *)
(* registration handler src/api/r0/authentication.rs.                      *)
(*                                                                         *)
(* Strings that the code parses or formats are sequences of atoms, so that *)
(* UserId::try_from, format! and the macaroon serialisation are computed   *)
(* and not assumed.  The macaroon HMAC chain, its serialisation, Base64    *)
(* and argon2i are free constructors (injective, as their contracts say).  *)
(***************************************************************************)
EXTENDS Integers, Sequences, FiniteSets, TLC

\* ---------------------------------------------------------------- bounds
MaxTokens == 2      \* rows the access_tokens table may hold in the model
MaxInstant == 2     \* last instant the clock type can represent (scaled)
TTL == 1            \* Duration::hours(1), in clock ticks

\* Option<T>
None == [some |-> FALSE]
Some(x) == [some |-> TRUE, value |-> x]

LocalParts == {"carl", "dave"}
Hostnames == {"ruma.test", "other.org"}
Passwords == {"secret", "another_secret"}
ConfigDomains == {"ruma.test"}
SecretKeys == {"k1"}
Callers == {1, 2}
LoginTypes == {"m.login.password", "m.login.email"}

\* the `user` field of a login body, as a sequence of atoms
RawUsers ==
    { <<"carl">>, <<"dave">>, <<"Carl!">>,
      <<"@", "carl", ":", "ruma.test">>,
      <<"@", "carl", ":", "other.org">> }

\* the parsed JSON body of a login request; None is a body that is not JSON
LoginBodies ==
    {None} \cup
    {Some(b) : b \in [type : LoginTypes, user : RawUsers, password : Passwords]}

\* the password login bodies that present RegisteredPassword for a local part
RegisteredPassword == "secret"
RegisteredBodies ==
    {Some([type |-> "m.login.password", user |-> <<l>>,
           password |-> RegisteredPassword]) : l \in LocalParts}

\* the registration request of such a client
RegistrationOf(l) == Some([username |-> Some(l), password |-> RegisteredPassword])

LoginFaults == {"none", "authenticate", "serialize", "insert"}

RegistrationBodies ==
    {None} \cup
    {Some(b) : b \in [username : {None} \cup {Some(l) : l \in LocalParts},
                      password : Passwords]}

VARIABLES
    config,     \* Config: domain and macaroon_secret_key
    users,      \* rows of the users table
    tokens,     \* rows of the access_tokens table, in id order
    now,        \* the wall clock
    held,       \* the AccessToken struct each caller holds in memory
    last,       \* the last operation: its name, inputs and result
    registered_with  \* history: the password each user id registered with

vars == <<config, users, tokens, now, held, last, registered_with>>

\* ------------------------------------------------------------ identifiers
\* UserId::try_from: "@" localpart ":" hostname
try_from(s) ==
    IF /\ Len(s) = 4
       /\ s[1] = "@"
       /\ s[3] = ":"
       /\ s[2] \in LocalParts
       /\ s[4] \in Hostnames
    THEN [ok |-> TRUE, localpart |-> s[2], hostname |-> s[4]]
    ELSE [ok |-> FALSE]

UserId(r) == [localpart |-> r.localpart, hostname |-> r.hostname]

\* UserId::to_string
to_string(user_id) == <<"@", user_id.localpart, ":", user_id.hostname>>

\* ----------------------------------------------------------------- errors
ServerErrorStatus == "InternalServerError"

ApiError(kind, message) ==
    [ok |-> FALSE, kind |-> kind, message |-> message,
     status |-> IF kind = "bad_json" THEN "UnprocessableEntity"
                ELSE IF kind = "unauthorized" THEN "Forbidden"
                ELSE ServerErrorStatus]

\* ---------------------------------------------------------------- hashing
argon2i_simple(password, salt) == <<"argon2i", salt, password>>

u8en(bytes) == <<"base64", bytes>>

\* a hash that leaves the password out
password_hash_of_salt(password) ==
    u8en(argon2i_simple("", "extremely insecure"))

\* Register::handle, the hash stored for a password
password_hash(password) == u8en(argon2i_simple(password, "extremely insecure"))

\* ------------------------------------------------------------- macaroons
V1Token_new(key, identifier) ==
    [identifier |-> identifier, caveats |-> <<>>,
     signature |-> <<"hmac", key, identifier>>]

add_caveat(token, caveat) ==
    [identifier |-> token.identifier,
     caveats |-> Append(token.caveats, caveat),
     signature |-> <<"hmac", token.signature, caveat>>]

serialize(token) == <<"v1", token.identifier, token.caveats, token.signature>>

encode(bytes) == <<"base64", bytes>>

\* Utc::now().checked_add_signed(Duration::hours(1))
checked_add_signed(instant, duration) ==
    IF instant + duration > MaxInstant THEN None ELSE Some(instant + duration)

\* create_macaroon that adds the type caveat last
create_macaroon_type_last(macaroon_secret_key, user_id, clock, fault) ==
    LET expiration == checked_add_signed(clock, TTL)
        token ==
            add_caveat(
                add_caveat(
                    add_caveat(V1Token_new(macaroon_secret_key, "key"),
                               <<"user_id = ">> \o to_string(user_id)),
                    <<"time < ", expiration.value>>),
                <<"type = access">>)
    IN  IF ~expiration.some
        THEN ApiError("unknown",
                      "Failed to generate access token expiration datetime.")
        ELSE IF fault = "serialize"
        THEN ApiError("macaroon", "serialize")
        ELSE [ok |-> TRUE, value |-> encode(serialize(token))]

\* create_macaroon that names only the local part in the user_id caveat
create_macaroon_localpart(macaroon_secret_key, user_id, clock, fault) ==
    LET expiration == checked_add_signed(clock, TTL)
        token ==
            add_caveat(
                add_caveat(
                    add_caveat(V1Token_new(macaroon_secret_key, "key"),
                               <<"user_id = ", user_id.localpart>>),
                    <<"type = access">>),
                <<"time < ", expiration.value>>)
    IN  IF ~expiration.some
        THEN ApiError("unknown",
                      "Failed to generate access token expiration datetime.")
        ELSE IF fault = "serialize"
        THEN ApiError("macaroon", "serialize")
        ELSE [ok |-> TRUE, value |-> encode(serialize(token))]

\* create_macaroon: the Base64 macaroon, or the error it returns
create_macaroon(macaroon_secret_key, user_id, clock, fault) ==
    LET expiration == checked_add_signed(clock, TTL)
        token ==
            add_caveat(
                add_caveat(
                    add_caveat(V1Token_new(macaroon_secret_key, "key"),
                               <<"user_id = ">> \o to_string(user_id)),
                    <<"type = access">>),
                <<"time < ", expiration.value>>)
    IN  IF ~expiration.some
        THEN ApiError("unknown",
                      "Failed to generate access token expiration datetime.")
        ELSE IF fault = "serialize"
        THEN ApiError("macaroon", "serialize")
        ELSE [ok |-> TRUE, value |-> encode(serialize(token))]

\* ------------------------------------------------------------ access_token
\* create whose failed insert leaves the new row behind
create_keeping_failed_row(rows, user_id, macaroon_secret_key, clock, fault) ==
    LET macaroon == create_macaroon(macaroon_secret_key, user_id, clock, fault)
        row == [id |-> Len(rows) + 1,
                user_id |-> user_id,
                value |-> macaroon.value,
                revoked |-> FALSE,
                created_at |-> clock,
                updated_at |-> clock]
    IN  IF ~macaroon.ok
        THEN [ok |-> FALSE, error |-> macaroon, rows |-> rows]
        ELSE IF fault = "insert"
        THEN [ok |-> FALSE, error |-> ApiError("diesel", "insert"),
              rows |-> Append(rows, row)]
        ELSE [ok |-> TRUE, token |-> row, rows |-> Append(rows, row)]

\* create that writes the new value into the row the user already has
create_reusing(rows, user_id, macaroon_secret_key, clock, fault) ==
    LET macaroon == create_macaroon(macaroon_secret_key, user_id, clock, fault)
        own == {i \in DOMAIN rows : rows[i].user_id = user_id}
        row == [id |-> Len(rows) + 1,
                user_id |-> user_id,
                value |-> macaroon.value,
                revoked |-> FALSE,
                created_at |-> clock,
                updated_at |-> clock]
        i == CHOOSE j \in own : TRUE
    IN  IF ~macaroon.ok
        THEN [ok |-> FALSE, error |-> macaroon, rows |-> rows]
        ELSE IF fault = "insert"
        THEN [ok |-> FALSE, error |-> ApiError("diesel", "insert"), rows |-> rows]
        ELSE IF own # {}
        THEN [ok |-> TRUE, token |-> [row EXCEPT !.id = i],
              rows |-> [rows EXCEPT ![i] = [row EXCEPT !.id = i]]]
        ELSE [ok |-> TRUE, token |-> row, rows |-> Append(rows, row)]

\* AccessToken::create: the new row and the table after the insert, or the
\* error and the table as it was
create(rows, user_id, macaroon_secret_key, clock, fault) ==
    LET macaroon == create_macaroon(macaroon_secret_key, user_id, clock, fault)
        row == [id |-> Len(rows) + 1,
                user_id |-> user_id,
                value |-> macaroon.value,
                revoked |-> FALSE,
                created_at |-> clock,
                updated_at |-> clock]
    IN  IF ~macaroon.ok
        THEN [ok |-> FALSE, error |-> macaroon, rows |-> rows]
        ELSE IF fault = "insert"
        THEN [ok |-> FALSE, error |-> ApiError("diesel", "insert"), rows |-> rows]
        ELSE [ok |-> TRUE, token |-> row, rows |-> Append(rows, row)]

\* valid_rows without the filter on the value
valid_rows_any_value(rows, token) ==
    {i \in DOMAIN rows : rows[i].revoked = FALSE}

\* valid_rows with the revoked filter inverted
valid_rows_revoked(rows, token) ==
    {i \in DOMAIN rows : rows[i].value = token /\ rows[i].revoked = TRUE}

\* the rows the query of find_valid_by_token selects
valid_rows(rows, token) ==
    {i \in DOMAIN rows : rows[i].value = token /\ rows[i].revoked = FALSE}

\* AccessToken::find_valid_by_token: every result the query may give; the
\* query has no ORDER BY, so .first() may return any selected row
find_valid_by_token(rows, token, fault) ==
    IF fault
    THEN {[ok |-> FALSE, error |-> ApiError("diesel", "select")]}
    ELSE IF valid_rows(rows, token) = {}
    THEN {[ok |-> TRUE, found |-> None]}
    ELSE {[ok |-> TRUE, found |-> Some(rows[i])] : i \in valid_rows(rows, token)}

\* revoke whose update has no WHERE id: it revokes every row of the user
revoke_all_of_user(self, rows, fault) ==
    LET changed == [self EXCEPT !.revoked = TRUE]
    IN  IF fault
        THEN [ok |-> FALSE, error |-> ApiError("diesel", "update"),
              self |-> changed, rows |-> rows]
        ELSE [ok |-> TRUE, self |-> changed,
              rows |-> [i \in DOMAIN rows |->
                           IF rows[i].user_id = self.user_id
                           THEN [rows[i] EXCEPT !.revoked = TRUE]
                           ELSE rows[i]]]

\* revoke that reports a failed write after the row was written
revoke_writing_on_error(self, rows, fault) ==
    LET changed == [self EXCEPT !.revoked = TRUE]
    IN  IF fault
        THEN [ok |-> FALSE, error |-> ApiError("diesel", "update"),
              self |-> changed,
              rows |-> [rows EXCEPT ![changed.id] = changed]]
        ELSE [ok |-> TRUE, self |-> changed,
              rows |-> [rows EXCEPT ![changed.id] = changed]]

\* revoke that updates only a row that is not revoked yet and reports the
\* missing row as an error
revoke_once(self, rows, fault) ==
    LET changed == [self EXCEPT !.revoked = TRUE]
    IN  IF fault \/ rows[self.id].revoked
        THEN [ok |-> FALSE, error |-> ApiError("diesel", "update"),
              self |-> changed, rows |-> rows]
        ELSE [ok |-> TRUE, self |-> changed,
              rows |-> [rows EXCEPT ![changed.id] = changed]]

\* revoke that flips the flag instead of setting it
revoke_toggles(self, rows, fault) ==
    LET changed == [self EXCEPT !.revoked = ~self.revoked]
    IN  IF fault
        THEN [ok |-> FALSE, error |-> ApiError("diesel", "update"),
              self |-> changed, rows |-> rows]
        ELSE [ok |-> TRUE, self |-> changed,
              rows |-> [rows EXCEPT ![changed.id] = changed]]

\* AccessToken::revoke on the struct `self`: the struct after the call, the
\* table after save_changes (which writes every column of the struct to the
\* row with its id) and the result
revoke(self, rows, fault) ==
    LET changed == [self EXCEPT !.revoked = TRUE]
    IN  IF fault
        THEN [ok |-> FALSE, error |-> ApiError("diesel", "update"),
              self |-> changed, rows |-> rows]
        ELSE [ok |-> TRUE, self |-> changed,
              rows |-> [rows EXCEPT ![changed.id] = changed]]

\* ------------------------------------------------------------------ login
\* visit_str that accepts every login type
visit_str_any(value) == [ok |-> TRUE, value |-> "Password"]

\* LoginTypeVisitor::visit_str
visit_str(value) ==
    IF value = "m.login.password"
    THEN [ok |-> TRUE, value |-> "Password"]
    ELSE [ok |-> FALSE, error |-> "Currenlty only m.login.password is supported"]

\* Credential check of AuthParams::authenticate
authenticate(rows, user_id, password, fault) ==
    LET found == {u \in rows : u.id = user_id.localpart}
    IN  IF fault = "authenticate"
        THEN [ok |-> FALSE, error |-> "StorageError"]
        ELSE IF found = {}
        THEN [ok |-> FALSE, error |-> "UnknownIdentity"]
        ELSE IF \E u \in found : u.password_hash = password_hash(password)
        THEN [ok |-> TRUE, id |-> user_id]
        ELSE [ok |-> FALSE, error |-> "InvalidCredentials"]

\* a closure that passes the error of authenticate on to the client
map_err_passing(error) == ApiError("unauthorized", error)

\* Login::handle, the closure that maps every error of authenticate
map_err(error) == ApiError("unauthorized", "Invalid credentials")

\* the same without the comparison of the hostname with config.domain
login_user_id_any_domain(user, domain) ==
    LET first == try_from(user)
        second == try_from(<<"@">> \o user \o <<":", domain>>)
    IN  IF first.ok
        THEN [ok |-> TRUE, user_id |-> UserId(first)]
        ELSE IF second.ok
        THEN [ok |-> TRUE, user_id |-> UserId(second)]
        ELSE ApiError("identifier", "invalid user id")

\* Login::handle, the part that turns login_request.user into a UserId
login_user_id(user, domain) ==
    LET first == try_from(user)
        second == try_from(<<"@">> \o user \o <<":", domain>>)
    IN  IF first.ok
        THEN IF first.hostname # domain
             THEN ApiError("unauthorized",
                           "User cannot be identified by this homeserver")
             ELSE [ok |-> TRUE, user_id |-> UserId(first)]
        ELSE IF second.ok
        THEN [ok |-> TRUE, user_id |-> UserId(second)]
        ELSE ApiError("identifier", "invalid user id")

\* Login::handle: the response, the access_tokens table after the request
\* and the store and macaroon calls the request reached
handle(body, cfg, user_rows, rows, clock, fault) ==
    LET login_type == visit_str(body.value.type)
        resolved == login_user_id(body.value.user, cfg.domain)
        registered_user ==
            authenticate(user_rows, resolved.user_id, body.value.password, fault)
        access_token ==
            create(rows, registered_user.id, cfg.macaroon_secret_key, clock, fault)
    IN  IF ~body.some
        THEN [response |-> ApiError("bad_json", "none"), rows |-> rows,
              calls |-> {}]
        ELSE IF ~login_type.ok
        THEN [response |-> ApiError("bad_json", login_type.error), rows |-> rows,
              calls |-> {}]
        ELSE IF ~resolved.ok
        THEN [response |-> resolved, rows |-> rows, calls |-> {}]
        ELSE IF ~registered_user.ok
        THEN [response |-> map_err(registered_user.error),
              rows |-> rows, calls |-> {"authenticate"}]
        ELSE IF ~access_token.ok
        THEN [response |-> access_token.error, rows |-> access_token.rows,
              calls |-> IF access_token.error.kind = "unknown"
                        THEN {"authenticate"}
                        ELSE IF access_token.error.kind = "macaroon"
                        THEN {"authenticate", "serialize"}
                        ELSE {"authenticate", "serialize", "insert"}]
        ELSE [response |-> [ok |-> TRUE,
                            status |-> "Ok",
                            access_token |-> access_token.token.value,
                            home_server |-> cfg.domain,
                            user_id |-> registered_user.id],
              rows |-> access_token.rows,
              calls |-> {"authenticate", "serialize", "insert"}]

\* --------------------------------------------------------------- register
\* Register::handle: the response and the users table after the request
register(body, random, user_rows, fault) ==
    LET new_user ==
            [id |-> IF body.value.username.some
                    THEN body.value.username.value ELSE random,
             password_hash |-> password_hash(body.value.password)]
    IN  IF ~body.some
        THEN [response |-> ApiError("not_json", "none"), rows |-> user_rows]
        ELSE IF fault \/ \E u \in user_rows : u.id = new_user.id
        THEN [response |-> ApiError("diesel", "insert"), rows |-> user_rows]
        ELSE [response |-> [ok |-> TRUE, status |-> "Ok", user_id |-> new_user.id],
              rows |-> user_rows \cup {new_user}]

\* ------------------------------------------------------- presented tokens
\* a token value no issuance produces: a macaroon under another key
forged_value == encode(serialize(V1Token_new("forged", "key")))

\* an issued value with the local part of its user_id caveat changed and the
\* signature left as it was
tampered(value) ==
    LET caveats == value[2][3]
        other == CHOOSE l \in LocalParts : l # caveats[1][3]
    IN  <<"base64",
          <<"v1", value[2][2],
            [caveats EXCEPT ![1] = [caveats[1] EXCEPT ![3] = other]],
            value[2][4]>>>>

\* the values a client may present: every issued value, every issued value
\* tampered with, and the forged one
PresentedValues ==
    {tokens[i].value : i \in DOMAIN tokens}
        \cup {tampered(tokens[i].value) : i \in DOMAIN tokens}
        \cup {forged_value}

\* ---------------------------------------------------------------- actions
\* the login endpoint from an empty database
InitLogin ==
    /\ config \in [domain : ConfigDomains, macaroon_secret_key : SecretKeys]
    /\ users = {}
    /\ registered_with = {}
    /\ tokens = <<>>
    /\ now = 0
    /\ held = [c \in Callers |-> None]
    /\ last = [op |-> "init"]

\* the token life cycle, from a database in which one user has registered
Init ==
    /\ config \in [domain : ConfigDomains, macaroon_secret_key : SecretKeys]
    /\ \E l \in LocalParts :
           /\ users = register(RegistrationOf(l), l, {}, FALSE).rows
           /\ registered_with = {[id |-> l, password |-> RegisteredPassword]}
    /\ tokens = <<>>
    /\ now = 0
    /\ held = [c \in Callers |-> None]
    /\ last = [op |-> "init"]

Register ==
    \E body \in RegistrationBodies, fault \in BOOLEAN :
        \E random \in IF body.some /\ ~body.value.username.some
                      THEN LocalParts ELSE {"carl"} :
            LET r == register(body, random, users, fault)
            IN  /\ users' = r.rows
                /\ registered_with' =
                       IF r.response.ok
                       THEN registered_with \cup
                            {[id |-> r.response.user_id,
                              password |-> body.value.password]}
                       ELSE registered_with
                /\ last' = [op |-> "register", out |-> r.response]
                /\ UNCHANGED <<config, tokens, now, held>>

\* a login request with a body of `bodies`; a fault is injected only into a
\* call the request makes
LoginOf(bodies) ==
    \E body \in bodies, fault \in LoginFaults :
        LET r == handle(body, config, users, tokens, now, fault)
        IN  /\ fault \in {"none"} \cup r.calls
            /\ Len(r.rows) <= MaxTokens
            /\ tokens' = r.rows
            /\ last' = [op |-> "login", body |-> body, fault |-> fault,
                        calls |-> r.calls, out |-> r.response]
            /\ UNCHANGED <<config, users, now, held, registered_with>>

\* a login request with any body
Login == LoginOf(LoginBodies)

\* a login request that presents RegisteredPassword
LoginRegistered == LoginOf(RegisteredBodies)

Validate ==
    \E c \in Callers, token \in PresentedValues, fault \in BOOLEAN :
        \E r \in find_valid_by_token(tokens, token, fault) :
            /\ held' = [held EXCEPT ![c] = IF r.ok THEN r.found ELSE None]
            /\ last' = [op |-> "validate", token |-> token, fault |-> fault,
                        out |-> r]
            /\ UNCHANGED <<config, users, tokens, now, registered_with>>

Revoke ==
    \E c \in Callers, fault \in BOOLEAN :
        /\ held[c].some
        /\ LET r == revoke(held[c].value, tokens, fault)
           IN  /\ tokens' = r.rows
               /\ held' = [held EXCEPT ![c] = Some(r.self)]
               /\ last' = [op |-> "revoke", id |-> r.self.id, fault |-> fault,
                           out |-> [ok |-> r.ok]]
        /\ UNCHANGED <<config, users, now, registered_with>>

Tick ==
    /\ now < MaxInstant
    /\ now' = now + 1
    /\ last' = [op |-> "tick"]
    /\ UNCHANGED <<config, users, tokens, held, registered_with>>

Next == LoginRegistered \/ Validate \/ Revoke \/ Tick

Spec == Init /\ [][Next]_vars

NextLogin == Register \/ Login \/ Tick

SpecLogin == InitLogin /\ [][NextLogin]_vars

\* the requests that must not write: logins with any body and lookups
NextRequests == Login \/ Validate \/ Tick

SpecRequests == Init /\ [][NextRequests]_vars

\* ----------------------------------------------------- reading a token
\* the caveats of a serialised token value
CaveatsOf(value) == value[2][3]

\* the instant named by the `time <` caveat of an issued value
ExpiresAt(value) == CaveatsOf(value)[3][2]

\* the last operation was a lookup that returned a row
Found == last.op = "validate" /\ last.out.ok /\ last.out.found.some

\* the rows that hold the value `token`
RowsOf(token) == {i \in DOMAIN tokens : tokens[i].value = token}

\* ------------------------------------------------------------------ C1
\* C1: once the revocation of a row is stored, a later lookup of that row's
\* value returns no row.
C1_RevocationObserved ==
    (last.op = "validate" /\ \E i \in RowsOf(last.token) : tokens[i].revoked)
        => ~Found

\* ------------------------------------------------------------------ C2
\* C2: the stored revoked flag of a row is false when the row is created and
\* never goes from true back to false, whatever copy a revoke writes back.
C2_RevokedMonotonic ==
    [][/\ \A i \in DOMAIN tokens :
              /\ i \in DOMAIN tokens'
              /\ tokens[i].revoked => tokens'[i].revoked
       /\ \A i \in DOMAIN tokens' \ DOMAIN tokens : ~tokens'[i].revoked]_vars

\* both callers revoked their own copy of one row, the second from a copy
\* read before the first was stored, and the row is revoked
C2_Witness ==
    /\ last.op = "revoke" /\ last.out.ok
    /\ \A c \in Callers :
           /\ held[c].some
           /\ held[c].value.id = last.id
           /\ held[c].value.revoked
    /\ tokens[last.id].revoked

\* ------------------------------------------------------------------ C3
\* C3: a lookup never returns a row when the clock has reached the expiry
\* instant of the presented token.
C3_ExpiredTokenFails == Found => now < ExpiresAt(last.token)

\* ------------------------------------------------------------------ C4
\* C4: no two rows of access_tokens hold the same value.
C4_UniqueValues ==
    \A i, j \in DOMAIN tokens : i # j => tokens[i].value # tokens[j].value

\* ------------------------------------------------------------------ C5
\* C5: a lookup of the value a login has just returned, made right after
\* that login and answered by the store, returns a row of the identity the
\* login issued the token for.
C5_RoundTrip ==
    [][(/\ last.op = "login" /\ last.out.ok
        /\ last'.op = "validate" /\ ~last'.fault
        /\ last'.token = last.out.access_token)
       => (/\ last'.out.found.some
           /\ last'.out.found.value.user_id = last.out.user_id
           /\ last'.out.found.value.value = last.out.access_token)]_vars

\* a lookup in the instant of issuance returned the row of the issued token
C5_Witness ==
    /\ Found
    /\ last.out.found.value.created_at = now
    /\ last.out.found.value.id = Len(tokens)

\* ------------------------------------------------------------------ C6
\* C6: a successful login appends one row {user_id = the authenticated
\* identity, value = the returned token, revoked = false} and leaves every
\* row that existed as it was.
C6_IssuanceAppends ==
    [][(last'.op = "login" /\ last'.out.ok)
       => (/\ Len(tokens') = Len(tokens) + 1
           /\ SubSeq(tokens', 1, Len(tokens)) = tokens
           /\ tokens'[Len(tokens')].user_id = last'.out.user_id
           /\ to_string(tokens'[Len(tokens')].user_id) =
                  <<"@">> \o last'.body.value.user \o <<":", config.domain>>
           /\ tokens'[Len(tokens')].value = last'.out.access_token
           /\ tokens'[Len(tokens')].revoked = FALSE)]_vars

\* a login succeeded for an identity whose earlier row is revoked: the new
\* row is live, the old one still revoked
C6_Witness ==
    /\ last.op = "login" /\ last.out.ok
    /\ Len(tokens) = 2
    /\ tokens[1].revoked
    /\ tokens[1].user_id = tokens[2].user_id
    /\ ~tokens[2].revoked

\* ------------------------------------------------- reading a login
\* the last operation was a login request of the password type
PasswordLogin ==
    /\ last.op = "login" /\ last.body.some
    /\ last.body.value.type = "m.login.password"

\* the identity a raw login string names on this server, if it names one
NamedIdentity(user) ==
    IF Len(user) = 1 /\ user[1] \in LocalParts
    THEN Some([localpart |-> user[1], hostname |-> config.domain])
    ELSE IF /\ Len(user) = 4 /\ user[1] = "@" /\ user[3] = ":"
            /\ user[2] \in LocalParts /\ user[4] = config.domain
    THEN Some([localpart |-> user[2], hostname |-> user[4]])
    ELSE None

\* the raw login string is a fully-qualified identity of another domain
ForeignIdentity(user) ==
    /\ Len(user) = 4 /\ user[1] = "@" /\ user[3] = ":"
    /\ user[2] \in LocalParts /\ user[4] \in Hostnames \ {config.domain}

\* the identity registered with exactly this password
RegisteredWith(identity, password) ==
    [id |-> identity.localpart, password |-> password] \in registered_with

\* the identity registered
Registered(identity) == \E r \in registered_with : r.id = identity.localpart

\* the one response of a failed credential check
Unauthorized == ApiError("unauthorized", "Invalid credentials")

\* ------------------------------------------------------------------ C7
\* C7: a password login that names an identity of this server succeeds only
\* if that identity registered with the presented password, is rejected as
\* unauthorized if it did not, and succeeds if it did whenever the store and
\* the macaroon library answer and the expiry instant is representable.
C7_LoginIffRegisteredPassword ==
    (PasswordLogin /\ NamedIdentity(last.body.value.user).some) =>
        LET identity == NamedIdentity(last.body.value.user).value
            matches == RegisteredWith(identity, last.body.value.password)
        IN  /\ last.out.ok => matches
            /\ ~matches => last.out = Unauthorized
            /\ (matches /\ last.fault = "none" /\ checked_add_signed(now, TTL).some)
                   => (last.out.ok /\ last.out.user_id = identity)

\* a login with a password other than the registered one was rejected, for
\* an identity that is registered
C7_Witness ==
    /\ PasswordLogin /\ NamedIdentity(last.body.value.user).some
    /\ Registered(NamedIdentity(last.body.value.user).value)
    /\ ~RegisteredWith(NamedIdentity(last.body.value.user).value,
                       last.body.value.password)
    /\ ~last.out.ok

\* ------------------------------------------------------------------ C8
\* C8: a password login of an unknown identity and one of a known identity
\* with a wrong password get one and the same response, the generic
\* unauthorized one: the response of the request made equals the response
\* every request of the other kind would get in this state.
C8_UnknownAndWrongPasswordAlike ==
    (/\ PasswordLogin /\ NamedIdentity(last.body.value.user).some
     /\ ~RegisteredWith(NamedIdentity(last.body.value.user).value,
                        last.body.value.password)) =>
        /\ last.out = Unauthorized
        /\ last.out.status = "Forbidden"
        /\ \A user \in RawUsers, password \in Passwords :
               (/\ NamedIdentity(user).some
                /\ ~RegisteredWith(NamedIdentity(user).value, password))
               => handle(Some([type |-> "m.login.password", user |-> user,
                               password |-> password]),
                         config, users, tokens, now, "none").response
                      = last.out

\* a wrong password for a registered identity was rejected while another
\* identity is not registered at all
C8_Witness ==
    /\ PasswordLogin /\ NamedIdentity(last.body.value.user).some
    /\ Registered(NamedIdentity(last.body.value.user).value)
    /\ ~RegisteredWith(NamedIdentity(last.body.value.user).value,
                       last.body.value.password)
    /\ \E l \in LocalParts : ~Registered([localpart |-> l])
    /\ last.out = Unauthorized

\* ------------------------------------------------------------------ C9
\* C9: a bare local part resolves to @local:config.domain, a fully-qualified
\* identity of config.domain to itself, and a fully-qualified identity of
\* another domain is rejected as foreign, without credential check or token.
C9_IdentityResolution ==
    /\ \A user \in RawUsers :
           LET resolved == login_user_id(user, config.domain)
           IN  /\ (Len(user) = 1 /\ user[1] \in LocalParts)
                      => (/\ resolved.ok
                          /\ to_string(resolved.user_id) =
                                 <<"@", user[1], ":", config.domain>>)
               /\ (NamedIdentity(user).some /\ Len(user) = 4)
                      => (resolved.ok /\ to_string(resolved.user_id) = user)
               /\ ForeignIdentity(user)
                      => (/\ ~resolved.ok
                          /\ resolved.message =
                                 "User cannot be identified by this homeserver")
    /\ PasswordLogin =>
           /\ last.out.ok =>
                  /\ NamedIdentity(last.body.value.user).some
                  /\ last.out.user_id = NamedIdentity(last.body.value.user).value
           /\ ForeignIdentity(last.body.value.user) =>
                  /\ last.out = ApiError("unauthorized",
                                  "User cannot be identified by this homeserver")
                  /\ last.calls = {}

\* a login as @carl:other.org was rejected although carl is registered with
\* the presented password
C9_Witness ==
    /\ PasswordLogin
    /\ ForeignIdentity(last.body.value.user)
    /\ [id |-> last.body.value.user[2], password |-> last.body.value.password]
           \in registered_with
    /\ ~last.out.ok

\* ----------------------------------------------------------------- C10
\* C10: a login request of any type other than m.login.password is answered
\* UnprocessableEntity, whatever its user and password, without a credential
\* check and without a change of the access_tokens table.
C10_UnsupportedTypeRejected ==
    [][(/\ last'.op = "login" /\ last'.body.some
        /\ last'.body.value.type # "m.login.password")
       => (/\ ~last'.out.ok
           /\ last'.out.kind = "bad_json"
           /\ last'.out.status = "UnprocessableEntity"
           /\ last'.calls = {}
           /\ tokens' = tokens)]_vars

\* a login of type m.login.email was rejected although its user and
\* password are those of a registered user
C10_Witness ==
    /\ last.op = "login" /\ last.body.some
    /\ last.body.value.type = "m.login.email"
    /\ NamedIdentity(last.body.value.user).some
    /\ RegisteredWith(NamedIdentity(last.body.value.user).value,
                      last.body.value.password)
    /\ last.out.status = "UnprocessableEntity"

\* ----------------------------------------------------------------- C11
\* C11: a lookup of the value of a revoked row gives exactly the result a
\* lookup of a never issued value gives.
C11_RevokedLikeUnknown ==
    (last.op = "validate" /\ \E i \in RowsOf(last.token) : tokens[i].revoked)
        => last.out \in find_valid_by_token(tokens, forged_value, last.fault)

\* ----------------------------------------------------------------- C12
\* C12: a revoke that the store answers succeeds and leaves the row revoked,
\* also when the row is revoked already (then the table does not change), so
\* two callers revoking their own copies of one row both succeed.
C12_RevokeIdempotent ==
    [][(last'.op = "revoke" /\ ~last'.fault)
       => (/\ last'.out.ok
           /\ tokens'[last'.id].revoked
           /\ tokens[last'.id].revoked => tokens' = tokens)]_vars

\* the second of two callers revoked its own copy of a row the first had
\* revoked: both copies are revoked in memory, the call succeeded
C12_Witness ==
    /\ last.op = "revoke" /\ ~last.fault /\ last.out.ok
    /\ \A c \in Callers :
           held[c] = Some([tokens[last.id] EXCEPT !.revoked = TRUE])
    /\ tokens[last.id].revoked

\* ----------------------------------------------------------------- C13
\* C13: a lookup returns a row only if that row is stored with exactly the
\* presented value, is not revoked and belongs to the identity named in the
\* value's user_id caveat; a value that no row holds returns no row.
C13_NoForgery ==
    last.op = "validate" =>
        /\ Found =>
               \E i \in RowsOf(last.token) :
                   /\ tokens[i] = last.out.found.value
                   /\ ~tokens[i].revoked
                   /\ CaveatsOf(last.token)[1] =
                          <<"user_id = ">> \o to_string(last.out.found.value.user_id)
        /\ (RowsOf(last.token) = {} /\ last.out.ok) => ~last.out.found.some

\* an issued, unrevoked value with its user_id caveat changed was presented
\* and no row was returned
C13_Witness ==
    /\ last.op = "validate" /\ last.out.ok /\ ~last.out.found.some
    /\ \E i \in DOMAIN tokens :
           /\ ~tokens[i].revoked
           /\ last.token = tampered(tokens[i].value)

\* ----------------------------------------------------------------- C14
\* C14: a login in which a store call fails, the credential lookup or the
\* insert of the token row, is answered with the server error status and
\* not as unauthorized.
C14_StoreFailureIsServerError ==
    (last.op = "login" /\ last.fault \in {"authenticate", "insert"})
        => (/\ ~last.out.ok
            /\ last.out.kind # "unauthorized"
            /\ last.out.status = ServerErrorStatus)

\* ----------------------------------------------------------------- C15
\* C15: a revoke whose write fails returns an error and leaves the table as
\* it was, with the caller's copy already revoked in memory; and a lookup
\* the store answers is decided by the stored rows alone: it returns a
\* stored row whenever an unrevoked row holds the value.
C15_FailedRevokeLeavesTokenValid ==
    [][/\ (last'.op = "revoke" /\ last'.fault)
          => (/\ ~last'.out.ok
              /\ tokens' = tokens
              /\ \E c \in Callers :
                     /\ held[c].some
                     /\ held'[c] = Some([held[c].value EXCEPT !.revoked = TRUE])
                     /\ held'[c].value.id = last'.id)
       /\ (/\ last'.op = "validate" /\ ~last'.fault
           /\ \E i \in RowsOf(last'.token) : ~tokens[i].revoked)
          => (/\ last'.out.found.some
              /\ last'.out.found.value \in
                     {tokens[i] : i \in RowsOf(last'.token)}
              /\ ~last'.out.found.value.revoked)]_vars

\* a lookup returned a row that another caller holds revoked in memory
\* after its revoke failed, while the stored row is not revoked
C15_Witness ==
    /\ Found
    /\ ~tokens[last.out.found.value.id].revoked
    /\ \E c \in Callers :
           /\ held[c].some
           /\ held[c].value.id = last.out.found.value.id
           /\ held[c].value.revoked

\* ----------------------------------------------------------------- C16
\* C16: the value of every row, and the token a successful login returns,
\* carries exactly the caveats user_id = <identity of the row>, type =
\* access, time < <clock at issuance + TTL>, in this order.
C16_ThreeCaveatsInOrder ==
    /\ \A i \in DOMAIN tokens :
           CaveatsOf(tokens[i].value) =
               << <<"user_id = ">> \o to_string(tokens[i].user_id),
                  <<"type = access">>,
                  <<"time < ", tokens[i].created_at + TTL>> >>
    /\ (last.op = "login" /\ last.out.ok) =>
           CaveatsOf(last.out.access_token) =
               << <<"user_id = ">> \o to_string(last.out.user_id),
                  <<"type = access">>,
                  <<"time < ", now + TTL>> >>

\* a login at a clock reading other than the first returned a token
C16_Witness ==
    /\ last.op = "login" /\ last.out.ok
    /\ now > 0
    /\ ExpiresAt(last.out.access_token) = now + TTL

\* ----------------------------------------------------------------- C17
\* C17: in every row the user_id is the identity named by the user_id caveat
\* of the value, its domain is config.domain and the identity is registered;
\* a successful login presented the password its identity registered with
\* and returns that identity and the value of the row it created.
C17_TokenBinding ==
    /\ \A i \in DOMAIN tokens :
           /\ CaveatsOf(tokens[i].value)[1] =
                  <<"user_id = ">> \o to_string(tokens[i].user_id)
           /\ tokens[i].user_id.hostname = config.domain
           /\ Registered(tokens[i].user_id)
    /\ (last.op = "login" /\ last.out.ok) =>
           /\ RegisteredWith(last.out.user_id, last.body.value.password)
           /\ last.out.user_id = NamedIdentity(last.body.value.user).value
           /\ tokens[Len(tokens)].user_id = last.out.user_id
           /\ tokens[Len(tokens)].value = last.out.access_token
           /\ last.out.home_server = config.domain

\* a login with a fully-qualified user id succeeded while rows of two
\* identities are stored
C17_Witness ==
    /\ last.op = "login" /\ last.out.ok
    /\ Len(last.body.value.user) = 4
    /\ \E i, j \in DOMAIN tokens : tokens[i].user_id # tokens[j].user_id

\* ----------------------------------------------------------------- C18
\* C18: a revoke leaves every row other than the one it names as it was,
\* keeps the value and user_id of the one it names, and every other row
\* that is not revoked is still found by its value, with its identity.
C18_RevokeChangesOneRow ==
    [][last'.op = "revoke"
       => (/\ DOMAIN tokens' = DOMAIN tokens
           /\ tokens'[last'.id].value = tokens[last'.id].value
           /\ tokens'[last'.id].user_id = tokens[last'.id].user_id
           /\ \A i \in DOMAIN tokens \ {last'.id} :
                  /\ tokens'[i] = tokens[i]
                  /\ ~tokens[i].revoked =>
                         \A r \in find_valid_by_token(tokens', tokens[i].value,
                                                      FALSE) :
                             /\ r.found.some
                             /\ r.found.value.user_id = tokens[i].user_id)]_vars

\* one of two rows of an identity was revoked, the other is live
C18_Witness ==
    /\ last.op = "revoke" /\ last.out.ok
    /\ tokens[last.id].revoked
    /\ \E j \in DOMAIN tokens \ {last.id} :
           /\ tokens[j].user_id = tokens[last.id].user_id
           /\ tokens[j].value # tokens[last.id].value
           /\ ~tokens[j].revoked

\* ----------------------------------------------------------------- C19
\* C19: a login step that ends in an error, whatever its body and whichever
\* call failed, and a lookup step leave the access_tokens table as it was.
C19_FailedLoginWritesNothing ==
    [][((last'.op = "login" /\ ~last'.out.ok) \/ last'.op = "validate")
       => tokens' = tokens]_vars

\* a login failed at the insert while a row is stored
C19_Witness ==
    /\ last.op = "login" /\ ~last.out.ok
    /\ last.fault = "insert"
    /\ Len(tokens) >= 1

TypeOK ==
    /\ now \in 0..MaxInstant
    /\ Len(tokens) <= MaxTokens
    /\ \A i \in DOMAIN tokens : tokens[i].id = i
====
